---- MODULE Spec2Model ----
(***************************************************************************)
(* A model of package localdate (src/localdate.go): the LocalDate value    *)
(* type (an int32 day count since 1970-01-01 plus a Valid flag), its       *)
(* constructors, comparisons, day and calendar arithmetic, and its JSON    *)
(* and database/sql adapters.                                              *)
(*                                                                         *)
(* Day counts keep their 32-bit width: every sum that the Go code computes *)
(* in int32 is computed here with Add32, which wraps modulo 2^32.          *)
(* Text is a sequence of one-character strings, so that formatting and     *)
(* parsing are computed character by character.                            *)
(***************************************************************************)
EXTENDS Integers, Sequences, FiniteSets, TLC

VARIABLES
    d,      \* the program's LocalDate variable (a receiver of Scan/UnmarshalJSON)
    op,     \* the name of the last call
    arg,    \* the arguments of the last call
    out,    \* what the last call returned
    chain   \* how many results have been assigned back to d since construction

vars == <<d, op, arg, out, chain>>

(***************************************************************************)
(* Bounds of the model.                                                    *)
(***************************************************************************)
\* AddDays is called with every n in -MaxShift..MaxShift.
MaxShift == 3
\* a result is assigned back to d at most MaxChain times in a row.
MaxChain == 1

(***************************************************************************)
(* const ( daysInfinity = math.MaxInt32; daysNegInfinity = math.MinInt32 ) *)
(***************************************************************************)
daysInfinity == 2147483647
daysNegInfinity == -2147483647 - 1

(***************************************************************************)
(* int32 addition: the sum wrapped modulo 2^32 into MinInt32..MaxInt32.    *)
(* Both operands are int32 values; no intermediate value leaves the range. *)
(***************************************************************************)
Add32(a, b) ==
    IF b > 0 /\ a > daysInfinity - b
        THEN (a + daysNegInfinity) + (b + daysNegInfinity)
    ELSE IF b < 0 /\ a < daysNegInfinity - b
        THEN (a - daysNegInfinity) + (b - daysNegInfinity)
    ELSE a + b

(***************************************************************************)
(* The proleptic Gregorian calendar of package time, which NewLocalDate    *)
(* and Time().Date() go through.                                           *)
(***************************************************************************)
\* the 4/100/400 rule
isLeap(year) == year % 4 = 0 /\ (year % 100 # 0 \/ year % 400 = 0)

daysIn(month, year) ==
    IF month = 2 THEN (IF isLeap(year) THEN 29 ELSE 28)
    ELSE IF month \in {4, 6, 9, 11} THEN 30
    ELSE 31

\* days of the year before the first of the month
daysBefore(month, year) ==
    LET cum == <<0, 31, 59, 90, 120, 151, 181, 212, 243, 273, 304, 334>>
    IN  cum[month] + (IF isLeap(year) /\ month >= 3 THEN 1 ELSE 0)

\* the number of leap years among the years 1..year (floor division, so the
\* count extends to year <= 0)
leapsThrough(year) == (year \div 4) - (year \div 100) + (year \div 400)

\* days from 1970-01-01 to the first of January of the year
daysSinceEpoch(year) ==
    Add32(365 * (year - 1970), leapsThrough(year - 1) - leapsThrough(1969))

\* time.Date normalises the month, overflowing into the year
norm(year, month) ==
    [year |-> year + ((month - 1) \div 12), month |-> ((month - 1) % 12) + 1]

\* time.Unix(days*86400, 0).UTC().Date(): the calendar date of a day count
CivilFromDays(z) ==
    LET q   == z \div 146097
        t   == (z % 146097) + 719468
        era == q + (t \div 146097)
        doe == t % 146097
        yoe == (doe - (doe \div 1460) + (doe \div 36524) - (doe \div 146096)) \div 365
        doy == doe - (365 * yoe + (yoe \div 4) - (yoe \div 100))
        mp  == (5 * doy + 2) \div 153
        dd  == doy - ((153 * mp + 2) \div 5) + 1
        m   == IF mp < 10 THEN mp + 3 ELSE mp - 9
        y   == yoe + era * 400 + (IF m <= 2 THEN 1 ELSE 0)
    IN  [year |-> y, month |-> m, day |-> dd]

(***************************************************************************)
(* type LocalDate struct { Days int32; Valid bool }                        *)
(***************************************************************************)
LocalDate(days, valid) == [Days |-> days, Valid |-> valid]

\* the zero value LocalDate{}
ZeroDate == LocalDate(0, FALSE)

\* NewLocalDate without the 29th of February of the year itself
NewLocalDateNoLeap(year, month, day) ==
    LET n == norm(year, month)
    IN  LocalDate(Add32(Add32(Add32(365 * (n.year - 1970),
                                    leapsThrough(n.year - 1) - leapsThrough(1969)),
                              <<0, 31, 59, 90, 120, 151, 181, 212, 243, 273, 304, 334>>[n.month]),
                        day - 1), TRUE)

\* func NewLocalDate(year int, month time.Month, day int) LocalDate:
\* t := time.Date(year, month, day, 0, 0, 0, 0, time.UTC), then
\* int32(t.Unix() / 86400).  t is a UTC midnight, so t.Unix() is a multiple
\* of 86400 and the quotient is the day count of the normalised date; the
\* conversion to int32 keeps its low 32 bits.
NewLocalDate(year, month, day) ==
    LET n == norm(year, month)
    IN  LocalDate(Add32(Add32(daysSinceEpoch(n.year), daysBefore(n.month, n.year)),
                        day - 1), TRUE)

InfinityDate == LocalDate(daysInfinity, TRUE)

NegInfinityDate == LocalDate(daysNegInfinity, TRUE)

IsInfinity(a) == a.Days = daysInfinity

IsNegInfinity(a) == a.Days = daysNegInfinity

(***************************************************************************)
(* time.Time, as far as the package reads it: an instant, given by its UTC *)
(* day and the second of that day, and the offset of its zone in seconds.  *)
(***************************************************************************)
TimeOf(day, sec, off) == [day |-> day, sec |-> sec, off |-> off]

\* the day of time.Time{}, 0001-01-01
zeroTimeDay == -719162

\* time.Time{}
ZeroTime == TimeOf(zeroTimeDay, 0, 0)

\* t.Year(), t.Month(), t.Day(): the calendar date in t's own zone
DateOfInUTC(t) == CivilFromDays(t.day)

DateOf(t) == CivilFromDays(t.day + ((t.sec + t.off) \div 86400))

\* func (d LocalDate) Time() time.Time
Time(a) ==
    IF IsInfinity(a) THEN ZeroTime
    ELSE TimeOf(a.Days, 0, 0)

\* func (d LocalDate) InfinityModifier() int32
InfinityModifier(a) ==
    IF a.Days = daysInfinity THEN 1
    ELSE IF a.Days = daysNegInfinity THEN -1
    ELSE 0

(***************************************************************************)
(* Text: t.Format("2006-01-02") and time.Parse("2006-01-02", s).           *)
(***************************************************************************)
Digits == <<"0", "1", "2", "3", "4", "5", "6", "7", "8", "9">>

IsDigit(c) == \E i \in 1..10 : Digits[i] = c

DigitVal(c) == (CHOOSE i \in 1..10 : Digits[i] = c) - 1

RECURSIVE DigitsOf(_)
DigitsOf(u) ==
    IF u < 10 THEN <<Digits[u + 1]>>
    ELSE DigitsOf(u \div 10) \o <<Digits[(u % 10) + 1]>>

RECURSIVE ZeroPad(_, _)
ZeroPad(s, width) == IF Len(s) >= width THEN s ELSE ZeroPad(<<"0">> \o s, width)

\* appendInt(b, x, width): a sign, then the digits zero-padded to the width
appendInt(x, width) ==
    IF x < 0 THEN <<"-">> \o ZeroPad(DigitsOf(-x), width)
    ELSE ZeroPad(DigitsOf(x), width)

\* Format without the zero padding of the month and the day
FormatNoPad(t) ==
    LET c == DateOf(t)
    IN  appendInt(c.year, 4) \o <<"-">> \o DigitsOf(c.month)
            \o <<"-">> \o DigitsOf(c.day)

\* t.Format("2006-01-02")
Format(t) ==
    LET c == DateOf(t)
    IN  appendInt(c.year, 4) \o <<"-">> \o appendInt(c.month, 2)
            \o <<"-">> \o appendInt(c.day, 2)

Num2(s, i) == 10 * DigitVal(s[i]) + DigitVal(s[i + 1])

Num4(s, i) == 100 * Num2(s, i) + Num2(s, i + 2)

\* time.Parse("2006-01-02", s): four digits, "-", two digits, "-", two
\* digits and nothing else; a month in 1..12 and a day the month has.
Parse(s) ==
    IF /\ Len(s) = 10
       /\ \A i \in {1, 2, 3, 4, 6, 7, 9, 10} : IsDigit(s[i])
       /\ s[5] = "-"
       /\ s[8] = "-"
    THEN LET year == Num4(s, 1)
             month == Num2(s, 6)
             day == Num2(s, 9)
         IN  IF month \in 1..12 /\ day >= 1 /\ day <= daysIn(month, year)
             THEN [err |-> "nil", year |-> year, month |-> month, day |-> day]
             ELSE [err |-> "parse"]
    ELSE [err |-> "parse"]

infinity == <<"i", "n", "f", "i", "n", "i", "t", "y">>

neginfinity == <<"-">> \o infinity

\* json.Marshal of a string (none of the characters used needs an escape)
Quote(s) == <<"\"">> \o s \o <<"\"">>

null == <<"n", "u", "l", "l">>

\* json.Unmarshal(data, &s) into a string: a JSON string gives its text, null
\* leaves s empty, anything else is an error
Unquote(data) ==
    IF Len(data) >= 2 /\ data[1] = "\"" /\ data[Len(data)] = "\""
        THEN [err |-> "nil", s |-> SubSeq(data, 2, Len(data) - 1)]
    ELSE IF data = null THEN [err |-> "nil", s |-> <<>>]
    ELSE [err |-> "json"]

\* func (d LocalDate) MarshalJSON() ([]byte, error)
MarshalJSON(a) ==
    IF IsInfinity(a) THEN [bytes |-> Quote(infinity), err |-> "nil"]
    ELSE IF IsNegInfinity(a) THEN [bytes |-> Quote(neginfinity), err |-> "nil"]
    ELSE [bytes |-> Quote(Format(Time(a))), err |-> "nil"]

\* the switch on the text that UnmarshalJSON and Scan share: the receiver
\* after the call, and the error
DecodeText(a, s) ==
    IF s = infinity THEN [d |-> [a EXCEPT !.Days = daysInfinity], err |-> "nil"]
    ELSE IF s = neginfinity
        THEN [d |-> [a EXCEPT !.Days = daysNegInfinity], err |-> "nil"]
    ELSE LET t == Parse(s)
         IN  IF t.err # "nil" THEN [d |-> a, err |-> t.err]
             ELSE [d |-> NewLocalDate(t.year, t.month, t.day), err |-> "nil"]

\* func (d *LocalDate) UnmarshalJSON(data []byte) error
UnmarshalJSON(a, data) ==
    LET u == Unquote(data)
    IN  IF u.err # "nil" THEN [d |-> a, err |-> u.err]
        ELSE DecodeText(a, u.s)

\* func (d *LocalDate) Scan(value interface{}) error
Scan(a, value) ==
    IF value.type = "time"
        THEN LET c == DateOf(value.v)
             IN  [d |-> NewLocalDate(c.year, c.month, c.day), err |-> "nil"]
    ELSE IF value.type = "string" THEN DecodeText(a, value.v)
    ELSE IF value.type = "nil" THEN [d |-> a, err |-> "nil"]
    ELSE [d |-> a, err |-> "type"]

\* func (d LocalDate) Value() (driver.Value, error)
Value(a) ==
    IF IsInfinity(a) THEN [type |-> "string", v |-> infinity]
    ELSE IF IsNegInfinity(a) THEN [type |-> "string", v |-> neginfinity]
    ELSE [type |-> "time", v |-> Time(a)]

\* func (d LocalDate) PgDate() pgtype.Date
PgDate(a) ==
    IF ~a.Valid THEN [Valid |-> FALSE, Time |-> ZeroTime, InfinityModifier |-> 0]
    ELSE IF InfinityModifier(a) # 0
        THEN [Valid |-> TRUE, Time |-> ZeroTime,
              InfinityModifier |-> InfinityModifier(a)]
    ELSE [Valid |-> TRUE, Time |-> Time(a), InfinityModifier |-> 0]

\* func At(at string) (LocalDate, error)
At(s) ==
    LET t == Parse(s)
    IN  IF t.err # "nil" THEN [d |-> ZeroDate, err |-> t.err]
        ELSE [d |-> NewLocalDate(t.year, t.month, t.day), err |-> "nil"]

\* func ToLocalDate(t time.Time) LocalDate
ToLocalDate(t) ==
    LET c == DateOf(t)
    IN  NewLocalDate(c.year, c.month, c.day)

(***************************************************************************)
(* Comparison and arithmetic.                                              *)
(***************************************************************************)
\* IsEqual on the day counts alone
IsEqualDaysOnly(a, b) == a.Days = b.Days

\* func IsEqual(a, b LocalDate) bool { return a == b }
IsEqual(a, b) == a = b

IsAfter(a, b) == a.Days > b.Days

\* IsBefore with <= for <
IsBeforeOrEqual(a, b) == a.Days <= b.Days

IsBefore(a, b) == a.Days < b.Days

\* AddDays without the test for the sentinels
AddDaysNoAbsorb(a, n) == LocalDate(Add32(a.Days, n), TRUE)

\* func AddDays(a LocalDate, n int) LocalDate; n ranges over int32 values
\* here, which int32(n) leaves as they are
AddDays(a, n) ==
    IF IsInfinity(a) \/ IsNegInfinity(a) THEN a
    ELSE LocalDate(Add32(a.Days, n), TRUE)

\* AddDate that clamps the day to the end of the shifted month
AddDateClamp(a, years, months, days) ==
    IF IsInfinity(a) \/ IsNegInfinity(a) THEN a
    ELSE LET c == DateOf(Time(a))
             n == norm(c.year + years, c.month + months)
             last == daysIn(n.month, n.year)
         IN  NewLocalDate(n.year, n.month,
                          (IF c.day > last THEN last ELSE c.day) + days)

\* func (t LocalDate) AddDate(years int, months int, days int) LocalDate
AddDate(a, years, months, days) ==
    IF IsInfinity(a) \/ IsNegInfinity(a) THEN a
    ELSE LET c == DateOf(Time(a))
         IN  NewLocalDate(c.year + years, c.month + months, c.day + days)

\* IsBetween with the upper bound left out
IsBetweenHalfOpen(needle, from, to) ==
    needle.Days >= from.Days /\ needle.Days < to.Days

\* func IsBetween(needle, from, to LocalDate) bool
IsBetween(needle, from, to) ==
    needle.Days >= from.Days /\ needle.Days <= to.Days

(***************************************************************************)
(* The inputs the calls are made with.                                     *)
(***************************************************************************)
\* years: 0 and 9999 (the ends of the four-digit range), a century that is
\* not a leap year, one that is, the epoch, a leap year and a common year
Years == {0, 1900, 1970, 2000, 2020, 2023, 9999}

\* months and days include the out-of-range ones that time.Date carries
Months == {0, 1, 2, 3, 4, 12, 13}

DaysOfMonth == {0, 1, 28, 29, 30, 31, 32}

\* the dates at and next to the two ends of the int32 day range, and the
\* dates one month before them
EdgeDates ==
    { <<5881580, 7, 11>>, <<5881580, 7, 10>>, <<5881580, 6, 11>>,
      <<-5877641, 6, 23>>, <<-5877641, 6, 24>>, <<-5877641, 7, 23>> }

CalendarInputs ==
    {<<y, m, dd>> : y \in Years, m \in Months, dd \in DaysOfMonth} \cup EdgeDates

\* 2023-05-15 and 2023-12-31 at 00:00:00, 01:00:00, 14:30:45 and 23:59:59
\* UTC, in UTC and in zones 10 hours behind and 9 hours ahead
TimeInputs ==
    {TimeOf(day, sec, off) : day \in {19492, 19722},
                             sec \in {0, 3600, 52245, 86399},
                             off \in {-36000, 0, 32400}}

TextInputs ==
    { infinity,
      neginfinity,
      <<"I">> \o SubSeq(infinity, 2, 8),
      <<>>,
      <<"2", "0", "2", "3", "-", "0", "5", "-", "1", "5">>,
      <<"2", "0", "2", "4", "-", "0", "2", "-", "2", "9">>,
      <<"2", "0", "2", "3", "-", "0", "2", "-", "2", "9">>,
      <<"2", "0", "2", "3", "-", "1", "3", "-", "4", "5">>,
      <<"1", "5", "/", "0", "5", "/", "2", "0", "2", "3">>,
      <<"2", "0", "2", "3", "-", "5", "-", "1", "5">>,
      <<"2", "0", "2", "3", "-", "0", "5", "-", "1", "5", "Z">>,
      <<"0", "0", "0", "0", "-", "0", "1", "-", "0", "1">>,
      <<"1", "9", "7", "0", "-", "0", "1", "-", "0", "1">> }

JSONInputs == {Quote(s) : s \in TextInputs} \cup {null, <<"1", "2">>}

ScanInputs ==
    {[type |-> "time", v |-> t] : t \in TimeInputs}
        \cup {[type |-> "string", v |-> s] : s \in TextInputs}
        \cup {[type |-> "nil", v |-> <<>>], [type |-> "int64", v |-> <<>>]}

\* the second operands of the comparisons of a
Operands(a) ==
    { InfinityDate, NegInfinityDate, ZeroDate, LocalDate(0, TRUE), a,
      LocalDate(a.Days, ~a.Valid), LocalDate(19492, TRUE) }

\* the bounds of the ranges a is looked for in
RangeEnds(a) ==
    {InfinityDate, NegInfinityDate, a, LocalDate(19492, TRUE)}

YearShifts == {-1, 0, 1}

MonthShifts == {-1, 0, 1}

DayShifts == {-1, 0, 1}

(***************************************************************************)
(* The program: one LocalDate variable d, and a caller that makes one call *)
(* at a time.  op = "idle" between calls; after a call the caller holds    *)
(* the result (out) and either drops it or assigns it to d.                *)
(***************************************************************************)
Init ==
    /\ d = ZeroDate
    /\ op = "idle"
    /\ arg = <<>>
    /\ out = <<>>
    /\ chain = 0

\* d = NewLocalDate(year, month, day)
DoNewLocalDate ==
    /\ op = "idle"
    /\ \E c \in CalendarInputs :
        /\ d' = NewLocalDate(c[1], c[2], c[3])
        /\ arg' = [year |-> c[1], month |-> c[2], day |-> c[3]]
        /\ out' = d'
    /\ op' = "NewLocalDate"
    /\ chain' = 0

\* d = InfinityDate()
DoInfinityDate ==
    /\ op = "idle"
    /\ d' = InfinityDate
    /\ op' = "InfinityDate"
    /\ arg' = <<>>
    /\ out' = d'
    /\ chain' = 0

\* d = NegInfinityDate()
DoNegInfinityDate ==
    /\ op = "idle"
    /\ d' = NegInfinityDate
    /\ op' = "NegInfinityDate"
    /\ arg' = <<>>
    /\ out' = d'
    /\ chain' = 0

\* d = LocalDate{}
DoZero ==
    /\ op = "idle"
    /\ d # ZeroDate
    /\ d' = ZeroDate
    /\ op' = "LocalDate{}"
    /\ arg' = <<>>
    /\ out' = d'
    /\ chain' = 0

\* d, err = At(s), with a text of the caller or the text just encoded
DoAt ==
    /\ op \in {"idle", "MarshalJSON"}
    /\ \E s \in (IF op = "idle" THEN TextInputs ELSE {Unquote(out.bytes).s}) :
        /\ d' = At(s).d
        /\ arg' = [at |-> s]
        /\ out' = At(s)
    /\ op' = "At"
    /\ chain' = IF op = "idle" THEN 0 ELSE chain

\* d = ToLocalDate(t)
DoToLocalDate ==
    /\ op = "idle"
    /\ \E t \in TimeInputs :
        /\ d' = ToLocalDate(t)
        /\ arg' = [t |-> t]
        /\ out' = d'
    /\ op' = "ToLocalDate"
    /\ chain' = 0

\* err = x.UnmarshalJSON(data), where x is d or a fresh variable that then
\* takes d's place, and data is a text of the caller or the bytes just encoded
DoUnmarshalJSON ==
    /\ op \in {"idle", "MarshalJSON"}
    /\ \E data \in (IF op = "idle" THEN JSONInputs ELSE {out.bytes}),
          fresh \in BOOLEAN :
        LET x == IF fresh THEN ZeroDate ELSE d
        IN  /\ d' = UnmarshalJSON(x, data).d
            /\ arg' = [data |-> data, fresh |-> fresh]
            /\ out' = [err |-> UnmarshalJSON(x, data).err]
    /\ op' = "UnmarshalJSON"
    /\ UNCHANGED chain

\* err = d.Scan(value)
DoScan ==
    /\ op = "idle"
    /\ \E value \in ScanInputs :
        /\ d' = Scan(d, value).d
        /\ arg' = [value |-> value]
        /\ out' = [err |-> Scan(d, value).err]
    /\ op' = "Scan"
    /\ UNCHANGED chain

\* bytes, err = d.MarshalJSON()
DoMarshalJSON ==
    /\ op = "idle"
    /\ op' = "MarshalJSON"
    /\ arg' = [d |-> d]
    /\ out' = MarshalJSON(d)
    /\ UNCHANGED <<d, chain>>

\* value, err = d.Value()
DoValue ==
    /\ op = "idle"
    /\ op' = "Value"
    /\ arg' = [d |-> d]
    /\ out' = Value(d)
    /\ UNCHANGED <<d, chain>>

\* d.PgDate()
DoPgDate ==
    /\ op = "idle"
    /\ op' = "PgDate"
    /\ arg' = [d |-> d]
    /\ out' = PgDate(d)
    /\ UNCHANGED <<d, chain>>

\* IsEqual(d, b), IsAfter(d, b), IsBefore(d, b)
DoCompare ==
    /\ op = "idle"
    /\ \E b \in Operands(d) :
        /\ arg' = [a |-> d, b |-> b]
        /\ out' = [IsEqual |-> IsEqual(d, b), IsAfter |-> IsAfter(d, b),
                   IsBefore |-> IsBefore(d, b)]
    /\ op' = "Compare"
    /\ UNCHANGED <<d, chain>>

\* IsBetween(d, from, to)
DoIsBetween ==
    /\ op = "idle"
    /\ \E from \in RangeEnds(d), to \in RangeEnds(d) :
        /\ arg' = [needle |-> d, from |-> from, to |-> to]
        /\ out' = IsBetween(d, from, to)
    /\ op' = "IsBetween"
    /\ UNCHANGED <<d, chain>>

\* AddDays(d, n)
DoAddDays ==
    /\ op = "idle"
    /\ \E n \in -MaxShift..MaxShift :
        /\ arg' = [a |-> d, n |-> n]
        /\ out' = AddDays(d, n)
    /\ op' = "AddDays"
    /\ UNCHANGED <<d, chain>>

\* d.AddDate(years, months, days)
DoAddDate ==
    /\ op = "idle"
    /\ \E years \in YearShifts, months \in MonthShifts, days \in DayShifts :
        /\ arg' = [a |-> d, years |-> years, months |-> months, days |-> days]
        /\ out' = AddDate(d, years, months, days)
    /\ op' = "AddDate"
    /\ UNCHANGED <<d, chain>>

\* d = (the date AddDays or AddDate returned)
Assign ==
    /\ op \in {"AddDays", "AddDate"}
    /\ chain < MaxChain
    /\ d' = out
    /\ chain' = chain + 1
    /\ op' = "idle"
    /\ arg' = <<>>
    /\ out' = <<>>

\* the caller is done with the result
Return ==
    /\ op # "idle"
    /\ op' = "idle"
    /\ arg' = <<>>
    /\ out' = <<>>
    /\ UNCHANGED <<d, chain>>

Next ==
    \/ DoNewLocalDate
    \/ DoInfinityDate
    \/ DoNegInfinityDate
    \/ DoZero
    \/ DoAt
    \/ DoToLocalDate
    \/ DoUnmarshalJSON
    \/ DoScan
    \/ DoMarshalJSON
    \/ DoValue
    \/ DoPgDate
    \/ DoCompare
    \/ DoIsBetween
    \/ DoAddDays
    \/ DoAddDate
    \/ Assign
    \/ Return

Spec == Init /\ [][Next]_vars

(***************************************************************************)
(* The calendar the properties are stated against, day by day: the length  *)
(* of each month under the 4/100/400 rule, the day after and the day       *)
(* before a date, and the date n days away.                                *)
(***************************************************************************)
LeapYear(y) == (y % 4 = 0 /\ y % 100 # 0) \/ y % 400 = 0

MonthLength(y, m) ==
    CASE m = 2 -> IF LeapYear(y) THEN 29 ELSE 28
      [] m \in {4, 6, 9, 11} -> 30
      [] OTHER -> 31

Civil(y, m, dd) == [year |-> y, month |-> m, day |-> dd]

ProperDate(c) ==
    c.month \in 1..12 /\ c.day \in 1..MonthLength(c.year, c.month)

NextDay(c) ==
    IF c.day < MonthLength(c.year, c.month) THEN Civil(c.year, c.month, c.day + 1)
    ELSE IF c.month < 12 THEN Civil(c.year, c.month + 1, 1)
    ELSE Civil(c.year + 1, 1, 1)

PrevDay(c) ==
    IF c.day > 1 THEN Civil(c.year, c.month, c.day - 1)
    ELSE IF c.month > 1
        THEN Civil(c.year, c.month - 1, MonthLength(c.year, c.month - 1))
    ELSE Civil(c.year - 1, 12, 31)

RECURSIVE ShiftCivil(_, _)
ShiftCivil(c, n) ==
    IF n = 0 THEN c
    ELSE IF n > 0 THEN ShiftCivil(NextDay(c), n - 1)
    ELSE ShiftCivil(PrevDay(c), n + 1)

\* the year and month shifted with the month carried into the year, then the
\* day of the month counted on from the first of that month
RECURSIVE CarryMonth(_, _)
CarryMonth(y, m) ==
    IF m > 12 THEN CarryMonth(y + 1, m - 12)
    ELSE IF m < 1 THEN CarryMonth(y - 1, m + 12)
    ELSE Civil(y, m, 1)

Carry(y, m, dd) == ShiftCivil(CarryMonth(y, m), dd - 1)

FromCivil(c) == NewLocalDate(c.year, c.month, c.day)

\* the date a encodes, when a is the valid encoding of a proper date
Encodes(a) ==
    LET c == CivilFromDays(a.Days)
    IN  ProperDate(c) /\ a = FromCivil(c)

Sentinel(a) == IsInfinity(a) \/ IsNegInfinity(a)

\* a + n is an int32 value
Fits32(a, n) ==
    /\ ~(n > 0 /\ a > daysInfinity - n)
    /\ ~(n < 0 /\ a < daysNegInfinity - n)

\* the day count of the date (y, m, dd) under carry is an int32 value
DayCountFits(y, m, dd) ==
    LET c  == CarryMonth(y, m)
        s1 == 365 * (c.year - 1970)
        s2 == leapsThrough(c.year - 1) - leapsThrough(1969)
        s3 == daysBefore(c.month, c.year)
    IN  /\ Fits32(s1, s2)
        /\ Fits32(s1 + s2, s3)
        /\ Fits32(s1 + s2 + s3, dd - 1)

Text(a) == Format(TimeOf(a.Days, 0, 0))

(***************************************************************************)
(* C1.  ToLocalDate(t), and Scan of a time.Time t, give NewLocalDate of    *)
(* the UTC calendar date of the instant t, whatever zone t is in.          *)
(***************************************************************************)
C1_UTCDateOfInstant ==
    /\ op = "ToLocalDate" => out = FromCivil(DateOfInUTC(arg.t))
    /\ (op = "Scan" /\ arg.value.type = "time")
            => d = FromCivil(DateOfInUTC(arg.value.v))

(***************************************************************************)
(* C2.  Decoding "infinity" (UnmarshalJSON, Scan of a string) into any     *)
(* LocalDate leaves a value IsEqual to InfinityDate(), decoding            *)
(* "-infinity" one IsEqual to NegInfinityDate(); the two sentinels encode  *)
(* as "infinity" and "-infinity".                                          *)
(***************************************************************************)
C2_InfinityTokens ==
    /\ (op = "UnmarshalJSON" /\ arg.data = Quote(infinity))
            => out.err = "nil" /\ IsEqual(d, InfinityDate)
    /\ (op = "UnmarshalJSON" /\ arg.data = Quote(neginfinity))
            => out.err = "nil" /\ IsEqual(d, NegInfinityDate)
    /\ (op = "Scan" /\ arg.value = [type |-> "string", v |-> infinity])
            => out.err = "nil" /\ IsEqual(d, InfinityDate)
    /\ (op = "Scan" /\ arg.value = [type |-> "string", v |-> neginfinity])
            => out.err = "nil" /\ IsEqual(d, NegInfinityDate)
    /\ (op = "MarshalJSON" /\ arg.d = InfinityDate)
            => out.bytes = Quote(infinity)
    /\ (op = "MarshalJSON" /\ arg.d = NegInfinityDate)
            => out.bytes = Quote(neginfinity)

(***************************************************************************)
(* C3.  A finite valid date with a year in 0..9999, encoded by MarshalJSON *)
(* and decoded again, by UnmarshalJSON (into d or into a fresh variable)   *)
(* or, for its text, by At, decodes without error to an IsEqual date.      *)
(***************************************************************************)
FourDigitYear(a) ==
    /\ a.Valid
    /\ a.Days >= NewLocalDate(0, 1, 1).Days
    /\ a.Days <= NewLocalDate(9999, 12, 31).Days

C3_RoundTrip ==
    [][(op = "MarshalJSON" /\ FourDigitYear(d))
        => /\ op' = "UnmarshalJSON" => (out'.err = "nil" /\ IsEqual(d', d))
           /\ op' = "At" => (out'.err = "nil" /\ IsEqual(out'.d, d))]_vars

C3_Witness ==
    /\ op = "UnmarshalJSON"
    /\ arg.data = Quote(Text(NewLocalDate(9999, 12, 31)))
    /\ arg.fresh
    /\ d = NewLocalDate(9999, 12, 31)

(***************************************************************************)
(* C4, as stated.  For every proper date (y, m, dd) and every n whose      *)
(* result is inside the 32-bit day range, AddDays(NewLocalDate(y, m, dd),  *)
(* n) is NewLocalDate of the date n days later; with n = 0 the result      *)
(* IsEqual to the date.                                                    *)
(***************************************************************************)
C4_AddDaysAnyDate ==
    (op = "AddDays" /\ Encodes(arg.a) /\ Fits32(arg.a.Days, arg.n))
        => /\ out = FromCivil(ShiftCivil(CivilFromDays(arg.a.Days), arg.n))
           /\ arg.n = 0 => IsEqual(out, arg.a)

(***************************************************************************)
(* C4, amended.  The same for every proper date whose day count is not one *)
(* of the two sentinels (5881580-07-11 and -5877641-06-23 are).            *)
(***************************************************************************)
C4_AddDaysFiniteDate ==
    (op = "AddDays" /\ Encodes(arg.a) /\ Fits32(arg.a.Days, arg.n))
        => /\ ~Sentinel(arg.a)
                => out = FromCivil(ShiftCivil(CivilFromDays(arg.a.Days), arg.n))
           /\ arg.n = 0 => IsEqual(out, arg.a)

C4_Witness ==
    /\ op = "AddDays"
    /\ arg.a = NewLocalDate(2020, 2, 28)
    /\ arg.n = 2
    /\ out = NewLocalDate(2020, 3, 1)

(***************************************************************************)
(* C5, as stated.  For a finite date d that encodes the proper date        *)
(* (y, m, dd), d.AddDate(years, months, days) is NewLocalDate(y + years,   *)
(* m + months, dd + days), which is the date reached by carrying the month *)
(* into the year and counting the day on from the first of that month, and *)
(* it is AddDays(d.AddDate(years, months, 0), days).                       *)
(***************************************************************************)
C5_CalendarCarry ==
    LET c == CivilFromDays(arg.a.Days)
    IN  /\ out = NewLocalDate(c.year + arg.years, c.month + arg.months,
                              c.day + arg.days)
        /\ out = FromCivil(Carry(c.year + arg.years, c.month + arg.months,
                                 c.day + arg.days))

C5_InRange ==
    LET c == CivilFromDays(arg.a.Days)
    IN  /\ DayCountFits(c.year + arg.years, c.month + arg.months, c.day)
        /\ DayCountFits(c.year + arg.years, c.month + arg.months,
                        c.day + arg.days)

C6_InfinityAbsorbs ==
    /\ (op = "AddDays" /\ arg.a = InfinityDate) => IsEqual(out, InfinityDate)
    /\ (op = "AddDays" /\ arg.a = NegInfinityDate)
            => IsEqual(out, NegInfinityDate)
    /\ (op = "AddDate" /\ Sentinel(arg.a)) => out = arg.a

C6_Witness ==
    /\ op = "AddDays"
    /\ arg.a = InfinityDate
    /\ arg.n = MaxShift
    /\ out = InfinityDate

(***************************************************************************)
(* C7.  NegInfinityDate() IsBefore every finite date and InfinityDate();   *)
(* InfinityDate() IsAfter every finite date and NegInfinityDate(); no date *)
(* IsBefore or IsAfter itself, and every date IsEqual to itself.           *)
(***************************************************************************)
C7_InfinityOrder ==
    op = "Compare" =>
        /\ (arg.a = NegInfinityDate /\ ~IsNegInfinity(arg.b)) => out.IsBefore
        /\ (arg.a = InfinityDate /\ ~IsInfinity(arg.b)) => out.IsAfter
        /\ arg.b = arg.a => (~out.IsBefore /\ ~out.IsAfter /\ out.IsEqual)

C7_Witness ==
    /\ op = "Compare"
    /\ arg.a = NegInfinityDate
    /\ arg.b = LocalDate(19492, TRUE)
    /\ out.IsBefore

(***************************************************************************)
(* C8.  IsBetween(needle, from, to) is true exactly when                   *)
(* from.Days <= needle.Days <= to.Days: always between NegInfinityDate()   *)
(* and InfinityDate(), and never, for a finite needle, between             *)
(* InfinityDate() and NegInfinityDate().                                   *)
(***************************************************************************)
C8_Between ==
    op = "IsBetween" =>
        /\ out <=> (arg.from.Days <= arg.needle.Days
                        /\ arg.needle.Days <= arg.to.Days)
        /\ (arg.from = NegInfinityDate /\ arg.to = InfinityDate) => out
        /\ (arg.from = InfinityDate /\ arg.to = NegInfinityDate
                /\ ~Sentinel(arg.needle)) => ~out

C8_Witness ==
    /\ op = "IsBetween"
    /\ arg.from = InfinityDate
    /\ arg.to = NegInfinityDate
    /\ arg.needle = LocalDate(19492, TRUE)
    /\ ~out

(***************************************************************************)
(* C9, as stated.  For any two LocalDates, whatever their Valid flags,     *)
(* exactly one of IsEqual, IsBefore, IsAfter is true, and IsEqual is true  *)
(* exactly when the day counts are the same.                               *)
(***************************************************************************)
ExactlyOne(p, q, r) ==
    (p /\ ~q /\ ~r) \/ (~p /\ q /\ ~r) \/ (~p /\ ~q /\ r)

C9_TotalOrderOnDays ==
    op = "Compare" =>
        /\ ExactlyOne(out.IsEqual, out.IsBefore, out.IsAfter)
        /\ out.IsEqual <=> (arg.a.Days = arg.b.Days)

(***************************************************************************)
(* C9, amended.  IsEqual is true exactly when the day counts and the Valid *)
(* flags are the same; exactly one of the three is true unless the day     *)
(* counts are the same and the Valid flags differ, and then none is.       *)
(***************************************************************************)
C9_TotalOrderOnValues ==
    op = "Compare" =>
        /\ out.IsEqual <=> (arg.a.Days = arg.b.Days /\ arg.a.Valid = arg.b.Valid)
        /\ IF arg.a.Days = arg.b.Days /\ arg.a.Valid # arg.b.Valid
           THEN ~out.IsEqual /\ ~out.IsBefore /\ ~out.IsAfter
           ELSE ExactlyOne(out.IsEqual, out.IsBefore, out.IsAfter)

C9_Witness ==
    /\ op = "Compare"
    /\ arg.a = NewLocalDate(2023, 5, 15)
    /\ arg.b = LocalDate(arg.a.Days, FALSE)
    /\ ~out.IsEqual /\ ~out.IsBefore /\ ~out.IsAfter

(***************************************************************************)
(* C10.  A LocalDate with Valid = false is not read as day 0: AddDays and  *)
(* AddDate of it return a value with Valid = false, and MarshalJSON and    *)
(* Value of it do not give the date 1970-01-01.                            *)
(***************************************************************************)
C10_InvalidIsNoDate ==
    /\ (op \in {"AddDays", "AddDate"} /\ ~arg.a.Valid) => ~out.Valid
    /\ (op = "MarshalJSON" /\ ~arg.d.Valid)
            => out.bytes # Quote(Text(NewLocalDate(1970, 1, 1)))
    /\ (op = "Value" /\ ~arg.d.Valid)
            => ~(out.type = "time"
                    /\ DateOfInUTC(out.v) = Civil(1970, 1, 1))

(***************************************************************************)
(* C11.  AddDays of a finite valid date is never a sentinel, and the shift *)
(* is undone by the opposite shift: AddDays(AddDays(d, n), -n) = d, the    *)
(* day counts added as int32 values, wrapping modulo 2^32.                 *)
(***************************************************************************)
C11_ShiftStaysFinite ==
    (op = "AddDays" /\ arg.a.Valid /\ ~Sentinel(arg.a))
        => /\ ~IsInfinity(out)
           /\ ~IsNegInfinity(out)
           /\ AddDays(out, -arg.n) = arg.a

====
